---- MODULE Spec2Model ----
(***************************************************************************)
(* hours-worked: the pipeline of the script (work template, holidays and   *)
(* salary tables -> weekly dates until now -> holiday filter -> hours ->   *)
(* month groups -> salary lines).                                          *)
(*                                                                         *)
(* A structured date is a record [year, month, day].  A JS Date built by   *)
(* new Date(y, m - 1, d) is a local midnight; it is modelled by its day    *)
(* number (days since 1970-01-01), so that setDate(getDate() + n) is the   *)
(* addition of n and the getters are the inverse conversion.  A period is  *)
(* a record whose `to` is NoDate when the JSON object has no `to`.  The    *)
(* period objects of a table are distinct objects: a period's identity is  *)
(* its index in the table, and 0 is `undefined`.  Numbers (hours, salary)  *)
(* are integers.                                                           *)
(***************************************************************************)
EXTENDS Integers, Sequences, FiniteSets

\* ------------------------------------------------------------ bounds
MaxPeriods == 2
MaxHolidays == 1
MaxSalary == 2
MaxEmit == 6
MaxLen == 3

\* ------------------------------------------------------- JS Date model
SD(y, m, d) == [year |-> y, month |-> m, day |-> d]

\* the absent value: a missing `to`, the start date of an empty template
NoDate == SD(0, 0, 0)

\* new Date(y, m - 1, d) as a day number; a day past the end of the month
\* runs over into the next months, as the Date constructor does
daysFromCivil(y, m, d) ==
    LET yy  == IF m <= 2 THEN y - 1 ELSE y
        era == yy \div 400
        yoe == yy - era * 400
        mp  == (m + 9) % 12
        doy == (153 * mp + 2) \div 5 + d - 1
        doe == yoe * 365 + yoe \div 4 - yoe \div 100 + doy
    IN  era * 146097 + doe - 719468

\* getFullYear(), getMonth() + 1, getDate() of a day number
civilFromDays(n) ==
    LET z   == n + 719468
        era == z \div 146097
        doe == z - era * 146097
        yoe == (doe - doe \div 1460 + doe \div 36524 - doe \div 146096) \div 365
        doy == doe - (365 * yoe + yoe \div 4 - yoe \div 100)
        mp  == (5 * doy + 2) \div 153
        dd  == doy - (153 * mp + 2) \div 5 + 1
        mm  == IF mp < 10 THEN mp + 3 ELSE mp - 9
        yy  == yoe + era * 400
    IN  SD(IF mm <= 2 THEN yy + 1 ELSE yy, mm, dd)

\* Date.prototype.getDay(): 0 is Sunday; 1970-01-01 was a Thursday
getDay(n) == (n + 4) % 7

dateFromStructured(d) == daysFromCivil(d.year, d.month, d.day)

structuredFromDate(n) == civilFromDays(n)

valueOfStructured(sd) == sd.year * 10000 + sd.month * 100 + sd.day

\* a faulty variant: the week is added to a copy and the date itself is returned
addWeekSame(sd) == structuredFromDate(dateFromStructured(sd))

addWeek(sd) == structuredFromDate(dateFromStructured(sd) + 7)

RECURSIVE advanceToWeekDay(_, _)
advanceToWeekDay(date, weekDay) ==
    IF getDay(date) = weekDay THEN date
    ELSE advanceToWeekDay(date + 1, weekDay)

\* ------------------------------------------------------ period lookup
RECURSIVE scanPeriods(_, _, _)
scanPeriods(table, sd, i) ==
    IF i > Len(table) THEN 0
    ELSE IF valueOfStructured(table[i].from) <= valueOfStructured(sd)
            /\ (table[i].to = NoDate
                \/ valueOfStructured(sd) <= valueOfStructured(table[i].to))
         THEN i
         ELSE scanPeriods(table, sd, i + 1)

\* a faulty variant: the scan keeps going and returns the last match
RECURSIVE scanPeriodsLast(_, _, _, _)
scanPeriodsLast(table, sd, i, found) ==
    IF i > Len(table) THEN found
    ELSE IF valueOfStructured(table[i].from) <= valueOfStructured(sd)
            /\ (table[i].to = NoDate
                \/ valueOfStructured(sd) <= valueOfStructured(table[i].to))
         THEN scanPeriodsLast(table, sd, i + 1, i)
         ELSE scanPeriodsLast(table, sd, i + 1, found)

getMatchingPeriodLast(table, sd) == scanPeriodsLast(table, sd, 1, 0)

\* the index of the found period, 0 for undefined
getMatchingPeriod(table, sd) == scanPeriods(table, sd, 1)

\* getStartDate: the smallest of the periods' from dates advanced to
\* their week day; NoDate (undefined) for an empty template
RECURSIVE minFrom(_, _, _)
minFrom(fromDates, i, min) ==
    IF i > Len(fromDates) THEN min
    ELSE IF valueOfStructured(fromDates[i]) < valueOfStructured(min)
         THEN minFrom(fromDates, i + 1, fromDates[i])
         ELSE minFrom(fromDates, i + 1, min)

getStartDate(table) ==
    LET fromDates == [i \in 1..Len(table) |->
            structuredFromDate(advanceToWeekDay(
                dateFromStructured(table[i].from), table[i].weekDay))]
    IN  IF Len(table) = 0 THEN NoDate ELSE minFrom(fromDates, 1, fromDates[1])

\* a faulty variant: the predicate returns whether a holiday period was found
holidayFilterInverted(table, sd) == getMatchingPeriod(table, sd) # 0

\* the predicate of createHolidayFilter
holidayFilter(table, sd) == getMatchingPeriod(table, sd) = 0

\* ----------------------------------------------------------- inputs
SeqsUpTo(S, n) == UNION {[1..k -> S] : k \in 0..n}

TemplateFrom == {SD(2024, 1, 22), SD(2024, 2, 6)}
TemplateTo == {NoDate, SD(2024, 1, 22), SD(2024, 1, 31)}
WorkKinds == {<<1, 40>>, <<3, 24>>}
WorkPeriods ==
    {[from |-> f, to |-> t, weekDay |-> k[1], hoursPerWeek |-> k[2]] :
        f \in TemplateFrom, t \in TemplateTo, k \in WorkKinds}
Templates == SeqsUpTo(WorkPeriods, MaxPeriods)

HolidayPeriods ==
    {[from |-> SD(2024, 1, 29), to |-> SD(2024, 1, 29)],
     [from |-> SD(2024, 2, 6), to |-> NoDate]}
HolidayTables == SeqsUpTo(HolidayPeriods, MaxHolidays)

SalaryPeriods ==
    {[from |-> SD(2024, 1, 1), to |-> NoDate, salaryPerHour |-> 25],
     [from |-> SD(2024, 1, 15), to |-> SD(2024, 12, 31), salaryPerHour |-> 30]}
SalaryTables == SeqsUpTo(SalaryPeriods, MaxSalary)

Nows == {SD(2024, 2, 7), SD(2024, 2, 14)}

StartDates == {NoDate, SD(2024, 1, 22), SD(2024, 1, 24), SD(2024, 1, 30), SD(2024, 2, 6)}

GroupDates ==
    {SD(2023, 12, 25), SD(2024, 1, 1), SD(2024, 1, 29), SD(2025, 1, 6)}
DatesWithHours == {[date |-> dt, hoursWorked |-> h] : dt \in GroupDates, h \in {24, 40}}

\* ------------------------------------------------------------ state
VARIABLES
    template,                 \* getTemplate()
    holidays,                 \* getHolidays()
    salary,                   \* getSalary(), read when the salary is mentioned
    now,                      \* the date of new Date()
    pc,                       \* the statement the script is at
    startDate,                \* getStartDate(template)
    err,                      \* the exception that ended the run, "" for none
    d,                        \* datesUntilNow's d
    allDates,                 \* the dates datesUntilNow has yielded
    datesExcludingHolidays,
    datesWithHours,
    gi,                       \* groupByMonth's position in datesWithHours
    currentMonth,             \* groupByMonth's currentMonth
    groupedByMonth,           \* the groups groupByMonth has yielded
    groupedByMonthWithSalary,
    output                    \* the lines printed

vars == <<template, holidays, salary, now, pc, startDate, err, d, allDates,
          datesExcludingHolidays, datesWithHours, gi, currentMonth,
          groupedByMonth, groupedByMonthWithSalary, output>>

NoMonth == [year |-> 0, month |-> 0, hoursWorked |-> 0, concernedDates |-> <<>>]

InitRest ==
    /\ salary = <<>>
    /\ err = ""
    /\ allDates = <<>>
    /\ datesExcludingHolidays = <<>>
    /\ datesWithHours = <<>>
    /\ gi = 0
    /\ currentMonth = NoMonth
    /\ groupedByMonth = <<>>
    /\ groupedByMonthWithSalary = <<>>
    /\ output = <<>>

\* the script, once the template and the holidays are read
Init ==
    /\ template \in Templates
    /\ holidays \in HolidayTables
    /\ now \in Nows
    /\ pc = "getStartDate"
    /\ startDate = NoDate
    /\ d = NoDate
    /\ InitRest

\* ------------------------------------------------- const startDate = ...
GetStartDate ==
    /\ pc = "getStartDate"
    /\ startDate' = getStartDate(template)
    /\ d' = startDate'
    /\ pc' = "datesUntilNow"
    /\ UNCHANGED <<template, holidays, salary, now, err, allDates,
                   datesExcludingHolidays, datesWithHours, gi, currentMonth,
                   groupedByMonth, groupedByMonthWithSalary, output>>

\* ---------------------------------------------------- datesUntilNow
WalkFrame ==
    UNCHANGED <<template, holidays, salary, now, startDate,
                datesExcludingHolidays, datesWithHours, gi, currentMonth, groupedByMonth,
                groupedByMonthWithSalary, output>>

\* a faulty variant: the loop tests the start date
InLoopStart == dateFromStructured(startDate) <= dateFromStructured(now)

\* while (dateFromStructured(d) <= new Date())
InLoop == dateFromStructured(d) <= dateFromStructured(now)

currentPeriod == getMatchingPeriod(template, d)
nextWeek == addWeek(d)
nextPeriod == getMatchingPeriod(template, nextWeek)

\* an undefined start date: dateFromStructured reads d.year
WalkUndefined ==
    /\ pc = "datesUntilNow"
    /\ d = NoDate
    /\ pc' = "error"
    /\ err' = "TypeError"
    /\ UNCHANGED <<d, allDates>>
    /\ WalkFrame

\* yield d; the same period next week: d = nextWeek
WalkNextWeek ==
    /\ pc = "datesUntilNow"
    /\ d # NoDate
    /\ InLoop
    /\ Len(allDates) < MaxEmit
    /\ currentPeriod = nextPeriod
    /\ allDates' = Append(allDates, d)
    /\ d' = nextWeek
    /\ UNCHANGED <<pc, err>>
    /\ WalkFrame

\* a faulty variant: the walk keeps its cadence when it moves to another period
WalkNextPeriodKeepCadence ==
    /\ pc = "datesUntilNow"
    /\ d # NoDate
    /\ InLoop
    /\ Len(allDates) < MaxEmit
    /\ currentPeriod # nextPeriod
    /\ nextPeriod # 0
    /\ allDates' = Append(allDates, d)
    /\ d' = nextWeek
    /\ UNCHANGED <<pc, err>>
    /\ WalkFrame

\* yield d; moved to another period: d = nextPeriod.from
WalkNextPeriod ==
    /\ pc = "datesUntilNow"
    /\ d # NoDate
    /\ InLoop
    /\ Len(allDates) < MaxEmit
    /\ currentPeriod # nextPeriod
    /\ nextPeriod # 0
    /\ allDates' = Append(allDates, d)
    /\ d' = template[nextPeriod].from
    /\ UNCHANGED <<pc, err>>
    /\ WalkFrame

\* yield d; nextPeriod is undefined and nextPeriod.from throws
WalkNoNextPeriod ==
    /\ pc = "datesUntilNow"
    /\ d # NoDate
    /\ InLoop
    /\ Len(allDates) < MaxEmit
    /\ currentPeriod # nextPeriod
    /\ nextPeriod = 0
    /\ allDates' = Append(allDates, d)
    /\ pc' = "error"
    /\ err' = "TypeError"
    /\ UNCHANGED d
    /\ WalkFrame

\* the loop ends: allDates is complete
WalkDone ==
    /\ pc = "datesUntilNow"
    /\ d # NoDate
    /\ ~InLoop
    /\ pc' = "filter"
    /\ UNCHANGED <<d, err, allDates>>
    /\ WalkFrame

\* ------------------------------------- allDates.filter(holidayFilter)
Filter ==
    /\ pc = "filter"
    /\ datesExcludingHolidays' =
           SelectSeq(allDates, LAMBDA sd : holidayFilter(holidays, sd))
    /\ pc' = "mentionHours"
    /\ UNCHANGED <<template, holidays, salary, now, startDate, err, d, allDates,
                   datesWithHours, gi, currentMonth, groupedByMonth,
                   groupedByMonthWithSalary, output>>

\* ------------------------------ datesExcludingHolidays.map(mentionHours)
mentionHours(table, sd) ==
    [date |-> sd, hoursWorked |-> table[getMatchingPeriod(table, sd)].hoursPerWeek]

MentionHours ==
    /\ pc = "mentionHours"
    /\ \A i \in 1..Len(datesExcludingHolidays) :
           getMatchingPeriod(template, datesExcludingHolidays[i]) # 0
    /\ datesWithHours' = [i \in 1..Len(datesExcludingHolidays) |->
                             mentionHours(template, datesExcludingHolidays[i])]
    /\ pc' = "groupByMonth"
    /\ UNCHANGED <<template, holidays, salary, now, startDate, err, d, allDates,
                   datesExcludingHolidays, gi, currentMonth, groupedByMonth,
                   groupedByMonthWithSalary, output>>

\* throw new Error("Expected to have found a corresponding period for ...")
MentionHoursThrow ==
    /\ pc = "mentionHours"
    /\ \E i \in 1..Len(datesExcludingHolidays) :
           getMatchingPeriod(template, datesExcludingHolidays[i]) = 0
    /\ pc' = "error"
    /\ err' = "Error"
    /\ UNCHANGED <<template, holidays, salary, now, startDate, d, allDates,
                   datesExcludingHolidays, datesWithHours, gi, currentMonth,
                   groupedByMonth, groupedByMonthWithSalary, output>>

\* ------------------------------------------------------- groupByMonth
GroupFrame ==
    UNCHANGED <<template, holidays, salary, now, startDate, err, d, allDates,
                datesExcludingHolidays, datesWithHours,
                groupedByMonthWithSalary, output>>

\* if (!datesWithHours || !datesWithHours.length) return;
GroupEmpty ==
    /\ pc = "groupByMonth"
    /\ Len(datesWithHours) = 0
    /\ pc' = "mentionSalary"
    /\ UNCHANGED <<gi, currentMonth, groupedByMonth>>
    /\ GroupFrame

\* a faulty variant: the first month starts with the hours of the first element
GroupBeginSeeded ==
    /\ pc = "groupByMonth"
    /\ Len(datesWithHours) # 0
    /\ currentMonth' = [year |-> datesWithHours[1].date.year,
                        month |-> datesWithHours[1].date.month,
                        hoursWorked |-> datesWithHours[1].hoursWorked,
                        concernedDates |-> <<>>]
    /\ gi' = 1
    /\ pc' = "groupLoop"
    /\ UNCHANGED groupedByMonth
    /\ GroupFrame

\* let currentMonth = { year, month of the first element, 0, [] }
GroupBegin ==
    /\ pc = "groupByMonth"
    /\ Len(datesWithHours) # 0
    /\ currentMonth' = [year |-> datesWithHours[1].date.year,
                        month |-> datesWithHours[1].date.month,
                        hoursWorked |-> 0,
                        concernedDates |-> <<>>]
    /\ gi' = 1
    /\ pc' = "groupLoop"
    /\ UNCHANGED groupedByMonth
    /\ GroupFrame

\* a faulty variant: the months are compared and the years are not
sameMonthOnly(dateWithHours, month) == dateWithHours.date.month = month.month

sameMonth(dateWithHours, month) ==
    /\ dateWithHours.date.year = month.year
    /\ dateWithHours.date.month = month.month

\* the element is of the current month: add its hours and its date
GroupAdd ==
    /\ pc = "groupLoop"
    /\ gi <= Len(datesWithHours)
    /\ sameMonth(datesWithHours[gi], currentMonth)
    /\ currentMonth' =
           [currentMonth EXCEPT
               !.hoursWorked = @ + datesWithHours[gi].hoursWorked,
               !.concernedDates = Append(@, datesWithHours[gi].date)]
    /\ gi' = gi + 1
    /\ UNCHANGED <<pc, groupedByMonth>>
    /\ GroupFrame

\* the element is of another month: yield currentMonth and start a new one
GroupYield ==
    /\ pc = "groupLoop"
    /\ gi <= Len(datesWithHours)
    /\ ~sameMonth(datesWithHours[gi], currentMonth)
    /\ groupedByMonth' = Append(groupedByMonth, currentMonth)
    /\ currentMonth' = [year |-> datesWithHours[gi].date.year,
                        month |-> datesWithHours[gi].date.month,
                        hoursWorked |-> datesWithHours[gi].hoursWorked,
                        concernedDates |-> <<datesWithHours[gi].date>>]
    /\ gi' = gi + 1
    /\ UNCHANGED pc
    /\ GroupFrame

\* the loop is over: yield currentMonth
GroupEnd ==
    /\ pc = "groupLoop"
    /\ gi > Len(datesWithHours)
    /\ groupedByMonth' = Append(groupedByMonth, currentMonth)
    /\ pc' = "mentionSalary"
    /\ UNCHANGED <<gi, currentMonth>>
    /\ GroupFrame

\* --------------------------------- groupedByMonth.map(mentionSalary)
\* a faulty variant: the salary period is looked up for the month's first worked date
probeDateFirst(monthGroup) == monthGroup.concernedDates[1]

\* const sd = { year, month, day: 1 }
probeDate(monthGroup) == SD(monthGroup.year, monthGroup.month, 1)

mentionSalary(table, monthGroup) ==
    [year |-> monthGroup.year,
     month |-> monthGroup.month,
     hoursWorked |-> monthGroup.hoursWorked,
     monthlySalaryChargesExcluded |->
         monthGroup.hoursWorked
           * table[getMatchingPeriod(table, probeDate(monthGroup))].salaryPerHour]

SalaryFrame ==
    UNCHANGED <<template, holidays, now, startDate, d, allDates,
                datesExcludingHolidays, datesWithHours, gi, currentMonth,
                groupedByMonth, output>>

MentionSalary ==
    /\ pc = "mentionSalary"
    /\ \E table \in SalaryTables :
        /\ \A i \in 1..Len(groupedByMonth) :
               getMatchingPeriod(table, probeDate(groupedByMonth[i])) # 0
        /\ salary' = table
        /\ groupedByMonthWithSalary' =
               [i \in 1..Len(groupedByMonth) |->
                   mentionSalary(table, groupedByMonth[i])]
    /\ pc' = "print"
    /\ UNCHANGED err
    /\ SalaryFrame

\* salaryPeriod is undefined and salaryPeriod.salaryPerHour throws
MentionSalaryThrow ==
    /\ pc = "mentionSalary"
    /\ \E table \in SalaryTables :
        /\ \E i \in 1..Len(groupedByMonth) :
               getMatchingPeriod(table, probeDate(groupedByMonth[i])) = 0
        /\ salary' = table
    /\ pc' = "error"
    /\ err' = "TypeError"
    /\ UNCHANGED groupedByMonthWithSalary
    /\ SalaryFrame

\* ------------------------------------------- console.log(formatLine(d))
\* the line's fields: the year, the two digits of the month, the hours and
\* the charge
formatLine(salaryGroup) ==
    <<salaryGroup.year,
      IF salaryGroup.month < 10 THEN <<0, salaryGroup.month>>
      ELSE <<salaryGroup.month \div 10, salaryGroup.month % 10>>,
      salaryGroup.hoursWorked,
      salaryGroup.monthlySalaryChargesExcluded>>

PrintLines ==
    /\ pc = "print"
    /\ output' = [i \in 1..Len(groupedByMonthWithSalary) |->
                     formatLine(groupedByMonthWithSalary[i])]
    /\ pc' = "done"
    /\ UNCHANGED <<template, holidays, salary, now, startDate, err, d, allDates,
                   datesExcludingHolidays, datesWithHours, gi, currentMonth,
                   groupedByMonth, groupedByMonthWithSalary>>

\* ---------------------------------------------------- specifications
Next ==
    \/ GetStartDate
    \/ WalkUndefined
    \/ WalkNextWeek
    \/ WalkNextPeriod
    \/ WalkNoNextPeriod
    \/ WalkDone
    \/ Filter
    \/ MentionHours
    \/ MentionHoursThrow
    \/ GroupEmpty
    \/ GroupBegin
    \/ GroupAdd
    \/ GroupYield
    \/ GroupEnd
    \/ MentionSalary
    \/ MentionSalaryThrow
    \/ PrintLines

\* the whole script
Spec == Init /\ [][Next]_vars

\* datesUntilNow alone, on any template and any start date
InitWalk ==
    /\ template \in Templates
    /\ holidays = <<>>
    /\ now \in Nows
    /\ pc = "datesUntilNow"
    /\ startDate \in StartDates
    /\ d = startDate
    /\ InitRest

NextWalk ==
    \/ WalkUndefined
    \/ WalkNextWeek
    \/ WalkNextPeriod
    \/ WalkNoNextPeriod
    \/ WalkDone

SpecWalk == InitWalk /\ [][NextWalk]_vars

\* groupByMonth and what follows it, on any array of dates with hours
InitGroup ==
    /\ template = <<>>
    /\ holidays = <<>>
    /\ now \in Nows
    /\ pc = "groupByMonth"
    /\ startDate = NoDate
    /\ d = NoDate
    /\ salary = <<>>
    /\ err = ""
    /\ allDates = <<>>
    /\ datesExcludingHolidays = <<>>
    /\ datesWithHours \in SeqsUpTo(DatesWithHours, MaxLen)
    /\ gi = 0
    /\ currentMonth = NoMonth
    /\ groupedByMonth = <<>>
    /\ groupedByMonthWithSalary = <<>>
    /\ output = <<>>

NextGroup ==
    \/ GroupEmpty
    \/ GroupBegin
    \/ GroupAdd
    \/ GroupYield
    \/ GroupEnd
    \/ MentionSalary
    \/ MentionSalaryThrow
    \/ PrintLines

SpecGroup == InitGroup /\ [][NextGroup]_vars

\* ------------------------------------ the vocabulary of the properties
\* the calendar order of two dates
DateLeq(a, b) ==
    \/ a.year < b.year
    \/ a.year = b.year /\ a.month < b.month
    \/ a.year = b.year /\ a.month = b.month /\ a.day <= b.day

DateLess(a, b) == DateLeq(a, b) /\ a # b

\* the period covers the date
Covers(period, dt) ==
    /\ DateLeq(period.from, dt)
    /\ period.to = NoDate \/ DateLeq(dt, period.to)

Covering(table, dt) == {i \in 1..Len(table) : Covers(table[i], dt)}

\* the first period of the table that covers the date, 0 when there is none
FirstCovering(table, dt) ==
    IF Covering(table, dt) = {} THEN 0
    ELSE CHOOSE i \in Covering(table, dt) : \A j \in Covering(table, dt) : i <= j

\* the Gregorian calendar, day by day
DaysInMonth(y, m) ==
    IF m = 2
    THEN IF y % 4 = 0 /\ (y % 100 # 0 \/ y % 400 = 0) THEN 29 ELSE 28
    ELSE IF m \in {4, 6, 9, 11} THEN 30 ELSE 31

NextDay(dt) ==
    IF dt.day < DaysInMonth(dt.year, dt.month) THEN SD(dt.year, dt.month, dt.day + 1)
    ELSE IF dt.month < 12 THEN SD(dt.year, dt.month + 1, 1)
    ELSE SD(dt.year + 1, 1, 1)

RECURSIVE PlusDays(_, _)
PlusDays(dt, n) == IF n = 0 THEN dt ELSE PlusDays(NextDay(dt), n - 1)

\* two periods share a date
PeriodsOverlap(p, q) ==
    /\ p.to = NoDate \/ DateLeq(p.from, p.to)
    /\ q.to = NoDate \/ DateLeq(q.from, q.to)
    /\ q.to = NoDate \/ DateLeq(p.from, q.to)
    /\ p.to = NoDate \/ DateLeq(q.from, p.to)

\* the table's periods are mutually exclusive: no date is in two of them
MutuallyExclusive(table) ==
    \A i, j \in 1..Len(table) : i < j => ~PeriodsOverlap(table[i], table[j])

\* the table is as the data model wants it: every period has from <= to,
\* and no date is in two periods
WellFormed(table) ==
    /\ \A i \in 1..Len(table) :
           table[i].to = NoDate \/ DateLeq(table[i].from, table[i].to)
    /\ MutuallyExclusive(table)

RECURSIVE SumHours(_)
SumHours(seq) ==
    IF Len(seq) = 0 THEN 0 ELSE seq[1].hoursWorked + SumHours(Tail(seq))

Sorted(seq) ==
    \A i \in 1..Len(seq) - 1 : DateLeq(seq[i].date, seq[i + 1].date)

MonthOf(dt) == <<dt.year, dt.month>>

MonthLess(a, b) == a[1] < b[1] \/ (a[1] = b[1] /\ a[2] < b[2])

ProbeDates ==
    {structuredFromDate(n) :
        n \in dateFromStructured(SD(2024, 1, 20))..dateFromStructured(SD(2024, 2, 8))}

\* ------------------------------------------------------------- C1
\* C1: for every table and every date, getMatchingPeriod returns a period
\* exactly when some period of the table covers the date (from <= date, and
\* to absent or date <= to), the period returned is the first such period
\* in table order, and nothing is returned when none covers the date.
C1_LookupFirstMatch ==
    \A dt \in ProbeDates :
        LET r == getMatchingPeriod(template, dt)
            c == Covering(template, dt)
        IN  /\ r = 0 <=> c = {}
            /\ r # 0 => r \in c /\ \A j \in c : r <= j

\* both periods cover the first date and the date a week later, and the walk
\* went on by a week: both lookups returned the first of the two
C1_Witness ==
    /\ pc = "datesUntilNow"
    /\ Len(template) = 2
    /\ Len(allDates) = 1
    /\ Covering(template, allDates[1]) = {1, 2}
    /\ Covering(template, PlusDays(allDates[1], 7)) = {1, 2}
    /\ template[1].from # template[2].from
    /\ d = PlusDays(allDates[1], 7)

\* ------------------------------------------------------------- C2
Emitted(i) == allDates[i]

\* a pass of the loop of datesUntilNow: d is yielded
Yields == pc = "datesUntilNow" /\ allDates' = Append(allDates, d)

WalkBounds ==
    \A i \in 1..Len(allDates) :
        /\ DateLeq(startDate, Emitted(i))
        /\ DateLeq(Emitted(i), now)
        /\ i > 1 => DateLeq(Emitted(i - 1), Emitted(i))

\* C2 as stated: for every template and start date, no yielded date is
\* before startDate or after now, and no yielded date is before the one
\* yielded just before it.
C2_Original == WalkBounds

\* C2, amended: the same for every template whose periods are mutually
\* exclusive (no date is covered by two of its periods).
C2_WalkBoundsExclusive == MutuallyExclusive(template) => WalkBounds

\* a finished walk over two exclusive periods that moved to the second one
C2_Witness ==
    /\ pc = "filter"
    /\ Len(template) = 2
    /\ MutuallyExclusive(template)
    /\ Len(allDates) >= 3
    /\ FirstCovering(template, allDates[1]) = 1
    /\ FirstCovering(template, allDates[Len(allDates)]) = 2

\* ------------------------------------------------------------- C6
\* C6 as stated: the walk is finite for every template and start date.  The
\* next date is a function of d, the template and now alone, so the walk is
\* finite exactly when it never yields a date it has yielded before.
C6_Original ==
    \A i, j \in 1..Len(allDates) : i < j => Emitted(i) # Emitted(j)

\* C6, amended: over a template whose periods are mutually exclusive the
\* walk ends.  Each pass of the loop that goes on makes d a later date, and
\* the loop goes on only while d <= now; and no such walk yields as many as
\* MaxEmit dates, the number at which the model stops a walk.
C6_TerminatesExclusive ==
    /\ [][MutuallyExclusive(template) /\ Yields /\ pc' = "datesUntilNow" =>
            DateLess(d, d') /\ DateLeq(d, now)]_vars
    /\ [](MutuallyExclusive(template) => Len(allDates) < MaxEmit)

\* a walk over two exclusive periods that has left its loop with four dates
C6_Witness ==
    /\ pc = "filter"
    /\ Len(template) = 2
    /\ MutuallyExclusive(template)
    /\ Len(allDates) = 4
    /\ ~DateLeq(d, now)

\* ------------------------------------------------------------- C8
\* C8: after yielding d, when the lookup gives the same period for d and
\* for d + 7 days the next date is d + 7 days; otherwise it is the from
\* date of the period that covers d + 7 days.
C8_StepRule ==
    [][Yields /\ pc' = "datesUntilNow" =>
         LET cur == FirstCovering(template, d)
             nxt == FirstCovering(template, PlusDays(d, 7))
         IN  /\ cur = nxt => d' = PlusDays(d, 7)
             /\ cur # nxt => nxt # 0 /\ d' = template[nxt].from]_vars

\* the walk has just moved from the first period to the second period's
\* from date, which is not the date a week after the last one yielded
C8_Witness ==
    /\ pc = "datesUntilNow"
    /\ Len(template) = 2
    /\ Len(allDates) >= 1
    /\ FirstCovering(template, allDates[Len(allDates)]) = 1
    /\ FirstCovering(template, PlusDays(allDates[Len(allDates)], 7)) = 2
    /\ d = template[2].from
    /\ d # PlusDays(allDates[Len(allDates)], 7)

\* ------------------------------------------------------------- C9
\* C9: whenever the walk has yielded d and no period covers d + 7 days, the
\* walk aborts with an error; it does not go on to a later date.  Stated
\* for the well-formed templates alone.
C9_GapAborts ==
    [][Yields /\ WellFormed(template)
          /\ FirstCovering(template, PlusDays(d, 7)) = 0 =>
         pc' = "error"]_vars

\* ------------------------------------------------------------ C10
\* C10: every date the walk yields, started from getStartDate(template), is
\* covered by a period of the template, and mentionHours does not throw.
\* Stated for the well-formed templates alone.
C10_Coverage ==
    WellFormed(template) =>
        /\ \A i \in 1..Len(allDates) : FirstCovering(template, Emitted(i)) # 0
        /\ err # "Error"

\* ------------------------------------------------------------- C3
\* groupByMonth has returned: every group it yields is in groupedByMonth
Grouped == pc \in {"mentionSalary", "print", "done"}

\* C3: for a chronologically sorted input, the hours of the yielded groups
\* add up to the hours of the input elements, and every date in a group's
\* concernedDates has the group's year and month.
C3_GroupSum ==
    Sorted(datesWithHours) =>
        /\ Grouped => SumHours(groupedByMonth) = SumHours(datesWithHours)
        /\ \A g \in 1..Len(groupedByMonth) :
               \A k \in 1..Len(groupedByMonth[g].concernedDates) :
                   MonthOf(groupedByMonth[g].concernedDates[k])
                     = <<groupedByMonth[g].year, groupedByMonth[g].month>>

\* three sorted elements of two months, grouped into two groups
C3_Witness ==
    /\ pc = "mentionSalary"
    /\ Sorted(datesWithHours)
    /\ Len(datesWithHours) = 3
    /\ Len(groupedByMonth) = 2
    /\ Len(groupedByMonth[1].concernedDates) = 2
    /\ groupedByMonth[1].hoursWorked = 64

\* ------------------------------------------------------------- C7
InputMonths == {MonthOf(datesWithHours[i].date) : i \in 1..Len(datesWithHours)}

GroupMonth(g) == <<groupedByMonth[g].year, groupedByMonth[g].month>>

\* C7: for a chronologically sorted input, groupByMonth yields one group
\* for each distinct (year, month) of the input and no other, in strictly
\* increasing order, so that a finished report has one line for each
\* distinct month; for an empty input it yields nothing.
C7_OneGroupPerMonth ==
    Sorted(datesWithHours) =>
        /\ Grouped =>
            /\ Len(groupedByMonth) = Cardinality(InputMonths)
            /\ {GroupMonth(g) : g \in 1..Len(groupedByMonth)} = InputMonths
        /\ \A g \in 1..Len(groupedByMonth) - 1 :
               MonthLess(GroupMonth(g), GroupMonth(g + 1))
        /\ pc = "done" => Len(output) = Cardinality(InputMonths)

\* a report of two lines for the same month of two years
C7_Witness ==
    /\ pc = "done"
    /\ Sorted(datesWithHours)
    /\ Len(datesWithHours) = 3
    /\ Len(output) = 2
    /\ groupedByMonth[1].month = groupedByMonth[2].month

\* ------------------------------------------------------------- C4
\* the salary table covers day 1 of the group's month
Priced(table, g) == Covering(table, SD(g.year, g.month, 1)) # {}

\* C4: each group's charge is its hours times the salaryPerHour of the
\* first salary period covering day 1 of its month, the year, the month and
\* the hours being copied; when no salary period covers day 1 of a group's
\* month the run fails with an error, whatever the other days of the month.
C4_SalaryOfFirstDay ==
    /\ pc \in {"print", "done"} =>
        /\ Len(groupedByMonthWithSalary) = Len(groupedByMonth)
        /\ \A i \in 1..Len(groupedByMonth) :
            LET g == groupedByMonth[i]
                s == groupedByMonthWithSalary[i]
            IN  /\ Priced(salary, g)
                /\ s.year = g.year /\ s.month = g.month
                /\ s.hoursWorked = g.hoursWorked
                /\ s.monthlySalaryChargesExcluded = g.hoursWorked
                     * salary[FirstCovering(salary, SD(g.year, g.month, 1))].salaryPerHour
    /\ pc = "error" /\ Len(groupedByMonth) > 0 =>
        /\ err = "TypeError"
        /\ \E i \in 1..Len(groupedByMonth) : ~Priced(salary, groupedByMonth[i])

\* the run failed on a group whose dates are all covered by a salary period
\* that does not cover day 1 of the month
C4_Witness ==
    /\ pc = "error"
    /\ Len(groupedByMonth) = 1
    /\ Len(salary) = 1
    /\ \A k \in 1..Len(groupedByMonth[1].concernedDates) :
           Covers(salary[1], groupedByMonth[1].concernedDates[k])
    /\ ~Priced(salary, groupedByMonth[1])

\* ------------------------------------------------------------- C5
OnHoliday(dt) == Covering(holidays, dt) # {}

RECURSIVE WorkingDates(_)
WorkingDates(seq) ==
    IF Len(seq) = 0 THEN <<>>
    ELSE IF OnHoliday(seq[1]) THEN WorkingDates(Tail(seq))
    ELSE <<seq[1]>> \o WorkingDates(Tail(seq))

\* mentionHours has returned for every date
HoursMentioned ==
    pc \in {"groupByMonth", "groupLoop", "mentionSalary", "print", "done"}

\* C5: the holiday predicate is true of a date exactly when no holiday
\* period covers it; the dates that receive hours are the yielded dates
\* that no holiday period covers, in the order of the walk; and no date of
\* a month group is covered by a holiday period.
C5_HolidayExclusion ==
    /\ \A i \in 1..Len(allDates) :
           holidayFilter(holidays, Emitted(i)) <=> ~OnHoliday(Emitted(i))
    /\ HoursMentioned =>
           [i \in 1..Len(datesWithHours) |-> datesWithHours[i].date]
             = WorkingDates(allDates)
    /\ \A g \in 1..Len(groupedByMonth) :
           \A k \in 1..Len(groupedByMonth[g].concernedDates) :
               ~OnHoliday(groupedByMonth[g].concernedDates[k])
    /\ Grouped =>
           SumHours(groupedByMonth)
             = SumHours([i \in 1..Len(WorkingDates(allDates)) |->
                   [hoursWorked |->
                       template[FirstCovering(template, WorkingDates(allDates)[i])]
                           .hoursPerWeek]])

\* a finished report of a walk whose second date, and no other, is a holiday
C5_Witness ==
    /\ pc = "done"
    /\ Len(allDates) = 4
    /\ Len(datesWithHours) = 3
    /\ OnHoliday(allDates[2])
    /\ Len(output) >= 1

\* ------------------------------------------------------------ C11
\* the day of the week of a date, 0 for Sunday
WeekDayOf(dt) == getDay(dateFromStructured(dt))

\* C11: every date the walk yields, started from getStartDate(template),
\* falls on the weekDay of the period that covers it.  Stated for the
\* well-formed templates whose yielded dates are all covered by a period.
C11_WeekdayAligned ==
    (/\ WellFormed(template)
     /\ \A i \in 1..Len(allDates) : FirstCovering(template, Emitted(i)) # 0)
        => \A i \in 1..Len(allDates) :
               WeekDayOf(Emitted(i))
                 = template[FirstCovering(template, Emitted(i))].weekDay

====
